---- MODULE Spec2Model ----
(***************************************************************************)
(* Ingestion / deduplication / retention pipeline of Agent_AI_News.        *)
(*                                                                         *)
(* The relational store (NewsArticle rows), the vector index (Qdrant       *)
(* points), the scraper registry (ScraperFactory) and the control state of *)
(* NewsOrchestrationService's operations are the state.  Text is modelled  *)
(* as sequences of character codes, a SHA-256 digest by its preimage       *)
(* (collision freedom), a similarity score in units of 1/10000, time in    *)
(* days.  The database is the Django default (SQLite): a rolled back       *)
(* transaction restores the rows and the id sequence.                      *)
(***************************************************************************)
EXTENDS Integers, Sequences, FiniteSets, TLC

VARIABLES
    rows,        \* NewsArticle table: set of row records
    nextId,      \* AUTOINCREMENT sequence of the table
    index,       \* vector index: set of points [id, text]
    now,         \* timezone.now(), in days
    scrapers,    \* ScraperFactory._scrapers, an insertion-ordered dict
    discovered,  \* ScraperFactory._discovered
    pc,          \* which operation of the service is running
    run,         \* locals of the running scrape_single_source
    batch,       \* locals of the running scrape_all_sources
    sweep,       \* locals of the running cleanup_old_articles
    ret,         \* what the last finished operation returned to its caller
    last,        \* observation of the last processed record (history)
    prev,        \* observation of the last finished source-run (history)
    limiter,     \* a RateLimiter: max_requests, time_window, requests
    clock,       \* time.time(), in seconds
    calls,       \* the calls made on the limiter and their results (history)
    threads,     \* locals of the threads inside RateLimiter.is_allowed
    workers,     \* locals of the source-runs that execute in parallel
    hn           \* locals of the running HackerNewsScraper.scrape

\* the state of the service and of what it works on
service == <<rows, nextId, index, now, scrapers, discovered, pc, run, batch,
             sweep, ret, last, prev>>

vars == <<rows, nextId, index, now, scrapers, discovered, pc, run, batch,
          sweep, ret, last, prev, limiter, clock, calls, threads, workers, hn>>

-----------------------------------------------------------------------------
(* Bounds of the model *)

MaxId == 3
MaxFeed == 2
MaxTime == 1
MaxFails == 1
MaxRequests == 2
MaxWindow == 2
MaxClock == 4
MaxCalls == 5
MaxSlow == 2

(* Program constants *)

TitleMax == 500
SearchLimit == 5
Threshold == 8500
NoId == 0
DefaultMaxRequests == 100
DefaultTimeWindow == 60
HNMaxRequests == 10
HNTimeWindow == 60
MaxStories == 30
TicksPerSecond == 10

-----------------------------------------------------------------------------
(* Text *)

Min(a, b) == IF a < b THEN a ELSE b

SPACE == 32

\* str.lower() on ASCII codes
LowerChar(c) == IF c >= 65 /\ c <= 90 THEN c + 32 ELSE c

Lower(s) == [k \in 1..Len(s) |-> LowerChar(s[k])]

IsPrefix(p, s) == Len(p) <= Len(s) /\ SubSeq(s, 1, Len(p)) = p

\* str.replace(pat, ''): removes every non-overlapping occurrence, left to right
RECURSIVE Remove(_, _)
Remove(s, pat) ==
    IF s = <<>> THEN <<>>
    ELSE IF IsPrefix(pat, s) THEN Remove(SubSeq(s, Len(pat) + 1, Len(s)), pat)
    ELSE <<Head(s)>> \o Remove(Tail(s), pat)

\* "scraper"
SuffixScraper == <<115, 99, 114, 97, 112, 101, 114>>

\* name.lower().replace('scraper', '')
ScraperName(className) == Remove(Lower(className), SuffixScraper)

\* title[:500]
Truncate(title) == SubSeq(title, 1, Min(Len(title), TitleMax))

\* hashlib.sha256(f"{title}{content}".encode()).hexdigest(), by its preimage
ContentHash(title, content) == title \o content

\* f"{article.title} {article.content}"
SearchableText(title, content) == title \o <<SPACE>> \o content

-----------------------------------------------------------------------------
(* The outside world: adapter classes, what they fetch, how texts compare *)

\* "AScraper", "BScraper", "RSSFeedScraper"
ClsA == <<65, 83, 99, 114, 97, 112, 101, 114>>
ClsB == <<66, 83, 99, 114, 97, 112, 101, 114>>
ClsRSS == <<82, 83, 83, 70, 101, 101, 100, 83, 99, 114, 97, 112, 101, 114>>

\* parsers/a_scraper.py and parsers/b_scraper.py, with the classes
\* inspect.getmembers() finds in each, sorted by name
Modules == {"a_scraper", "b_scraper"}

Members(m) == IF m = "a_scraper" THEN <<ClsA, ClsRSS>> ELSE <<ClsB, ClsRSS>>

\* scraper_class(): RSSFeedScraper.__init__ needs source_name and feed_url
Instantiable(cls) == cls # ClsRSS

\* NewsArticleData records an adapter can return
Art1 == [url |-> 1, title |-> <<97>>, content |-> <<98, 99>>]
Art2 == [url |-> 2, title |-> <<97, 98>>, content |-> <<99>>]
Art3 == [url |-> 3, title |-> <<97>>, content |-> <<100>>]
Art4 == [url |-> 4, title |-> <<101>>, content |-> <<102>>]

Arts == {Art1, Art2, Art3, Art4}

\* two more records, unlike the others, and one that repeats Art5 byte for
\* byte under another URL
Art5 == [url |-> 5, title |-> <<103>>, content |-> <<104>>]
Art6 == [url |-> 6, title |-> <<105>>, content |-> <<106>>]
Art5Repeat == [url |-> 7, title |-> <<103>>, content |-> <<104>>]

\* a fetch of five entries: three unlike anything stored, a byte-identical
\* repeat, and Art3, which scores 0.90 against Art1
FeedOfFive == <<Art4, Art5, Art5Repeat, Art3, Art6>>

\* five records unlike one another, each of which scores 0.90 against Art4
Old1 == [url |-> 8, title |-> <<111>>, content |-> <<49>>]
Old2 == [url |-> 9, title |-> <<111>>, content |-> <<50>>]
Old3 == [url |-> 10, title |-> <<111>>, content |-> <<51>>]
Old4 == [url |-> 11, title |-> <<111>>, content |-> <<52>>]
Old5 == [url |-> 12, title |-> <<111>>, content |-> <<53>>]

Olds == {Old1, Old2, Old3, Old4, Old5}

\* a fetch of the five
FeedOfOld == <<Old1, Old2, Old3, Old4, Old5>>

TextOf(a) == SearchableText(Truncate(a.title), a.content)

\* cosine relevance of two embedded texts, in 1/10000
Score(s, t) ==
    IF s = t THEN 10000
    ELSE IF {s, t} = {TextOf(Art1), TextOf(Art2)} THEN 9500
    ELSE IF {s, t} = {TextOf(Art1), TextOf(Art3)} THEN 9000
    ELSE IF {s, t} = {TextOf(Art3), TextOf(Art4)} THEN 8500
    ELSE IF {s, t} = {TextOf(Art2), TextOf(Art4)} THEN 8499
    ELSE IF \E o \in Olds : {s, t} = {TextOf(o), TextOf(Art4)} THEN 9000
    ELSE 1000

RECURSIVE SeqsUpTo(_, _)
SeqsUpTo(S, n) ==
    IF n = 0 THEN {<<>>}
    ELSE LET shorter == SeqsUpTo(S, n - 1)
         IN  shorter \cup {Append(s, x) : s \in {t \in shorter : Len(t) = n - 1}, x \in S}

\* the lists scraper.scrape() may return
Feeds == SeqsUpTo(Arts, MaxFeed)

\* the steps of one record's processing that an external failure can hit: the
\* INSERT, the hash lookup, the similarity search, the UPDATE that marks a
\* duplicate, the upsert of the vector, the embedding kept in the row
Steps == {"insert", "hashq", "query", "mark", "upsert", "embed"}

FailSets == {f \in SUBSET Steps : Cardinality(f) <= MaxFails}

-----------------------------------------------------------------------------
(* The store: NewsArticle rows *)

NoText == <<>>

\* NewsArticle(title=..., content=..., url=..., ...) before it is saved
NewArticle(data, t) ==
    [id |-> NoId,
     url |-> data.url,
     title |-> Truncate(data.title),
     content |-> data.content,
     content_hash |-> NoText,
     scraped_date |-> t,
     is_duplicate |-> FALSE,
     duplicate_of |-> NoId,
     embedding_vector |-> NoText]

\* a variant whose check never finds the URL
UrlNeverExists(table, url) == FALSE

\* NewsArticle.objects.filter(url=...).exists()
UrlExists(table, url) == \E r \in table : r.url = url

\* NewsArticle.objects.get(id=...) finds a row
RowExists(table, id) == \E r \in table : r.id = id

\* a variant of the table without unique constraints
NoConstraint(table, a) == TRUE

\* the unique constraints of the table: url and content_hash
UniqueOk(table, a) ==
    /\ ~ \E r \in table : r.url = a.url
    /\ ~ \E r \in table : r.content_hash = a.content_hash

\* NewsArticle.save() of a new object: fills content_hash, then INSERTs.
\* Raises on a database error or a violated unique constraint.
Save(table, seq, article, fails) ==
    LET hashed == IF article.content_hash = NoText
                  THEN [article EXCEPT !.content_hash =
                            ContentHash(article.title, article.content)]
                  ELSE article
        saved == [hashed EXCEPT !.id = seq]
    IN  IF "insert" \in fails \/ ~ UniqueOk(table, hashed)
        THEN [raised |-> TRUE, rows |-> table, nextId |-> seq, article |-> hashed]
        ELSE [raised |-> FALSE, rows |-> table \cup {saved}, nextId |-> seq + 1,
              article |-> saved]

\* a variant that writes the flag and not the reference
MarkRowFlagOnly(table, article, original) ==
    {IF r.id = article.id THEN [r EXCEPT !.is_duplicate = TRUE] ELSE r : r \in table}

\* article.save(update_fields=['is_duplicate', 'duplicate_of']): an UPDATE of
\* the article's row that raises when it affects no row
MarkRow(table, article, original) ==
    {IF r.id = article.id
     THEN [r EXCEPT !.is_duplicate = TRUE, !.duplicate_of = original]
     ELSE r : r \in table}

\* article.save(update_fields=['embedding_vector'])
StoreEmbedding(table, article, text) ==
    {IF r.id = article.id THEN [r EXCEPT !.embedding_vector = text] ELSE r : r \in table}

-----------------------------------------------------------------------------
(* The vector index *)

\* a variant that leaves out the points whose relevance equals the threshold
HitsAboveThreshold(idx, text) == {d \in idx : Score(d.text, text) > Threshold}

\* the points whose relevance to the query is at least the threshold
Hits(idx, text) == {d \in idx : Score(d.text, text) >= Threshold}

\* similarity_search_with_relevance_scores(query, k, score_threshold): the k
\* best hits, best first; points of equal score come in any order
RECURSIVE Rankings(_, _, _)
Rankings(H, text, k) ==
    IF H = {} \/ k = 0 THEN {<<>>}
    ELSE LET best == {d \in H : \A e \in H : Score(d.text, text) >= Score(e.text, text)}
         IN  UNION {{<<d>> \o s : s \in Rankings(H \ {d}, text, k - 1)} : d \in best}

\* vector_store.add_documents(documents=[document], ids=[str(article.id)])
Upsert(idx, id, text) == {d \in idx : d.id # id} \cup {[id |-> id, text |-> text]}

\* client.delete(collection_name, points_selector=[article_id])
Delete(idx, id) == {d \in idx : d.id # id}

-----------------------------------------------------------------------------
(* VectorDeduplicator, ContentHashDeduplicator, DuplicationService *)

\* the loop of find_similar_articles: drops the article itself, invalid ids
\* and points whose row no longer exists
RECURSIVE Resolve(_, _, _, _)
Resolve(table, article, docs, text) ==
    IF docs = <<>> THEN <<>>
    ELSE LET d == Head(docs)
             rest == Resolve(table, article, Tail(docs), text)
         IN  IF d.id # NoId /\ d.id # article.id /\ RowExists(table, d.id)
             THEN <<[id |-> d.id, score |-> Score(d.text, text)]>> \o rest
             ELSE rest

\* a variant whose search returns nothing
NoSimilarArticles(table, article, ranking, fails) == <<>>

\* VectorDeduplicator.find_similar_articles: [] when the search raises
find_similar_articles(table, article, ranking, fails) ==
    IF "query" \in fails THEN <<>>
    ELSE Resolve(table, article, ranking,
                 SearchableText(article.title, article.content))

\* a variant that takes the last of the similar articles
OriginalIsLast(similar) == similar[Len(similar)].id

\* "original_article, similarity_score = similar_articles[0]"
Original(similar) == similar[1].id

\* check_and_mark_duplicates once find_similar_articles has returned similar
MarkSimilar(table, article, fails, similar) ==
    IF similar # <<>>
    THEN IF "mark" \in fails \/ ~ RowExists(table, article.id)
         THEN [raised |-> TRUE, rows |-> table, dup |-> FALSE,
               original |-> NoId, hits |-> similar, steps |-> {"query", "mark"}]
         ELSE [raised |-> FALSE, rows |-> MarkRow(table, article, Original(similar)),
               dup |-> TRUE, original |-> Original(similar), hits |-> similar,
               steps |-> {"query", "mark"}]
    ELSE [raised |-> FALSE, rows |-> table, dup |-> FALSE,
          original |-> NoId, hits |-> similar, steps |-> {"query"}]

\* VectorDeduplicator.check_and_mark_duplicates
check_and_mark_duplicates(table, article, ranking, fails) ==
    MarkSimilar(table, article, fails,
                find_similar_articles(table, article, ranking, fails))

\* a variant that stores the embedding before it adds the document
EmbeddingStoredFirst(table, idx, article, fails) ==
    LET text == SearchableText(article.title, article.content)
    IN  IF "embed" \in fails
        THEN IF "upsert" \in fails
             THEN [ok |-> FALSE, rows |-> table, index |-> idx, steps |-> {"upsert"}]
             ELSE [ok |-> TRUE, rows |-> table, index |-> Upsert(idx, article.id, text),
                   steps |-> {"upsert", "embed"}]
        ELSE IF "upsert" \in fails
        THEN [ok |-> FALSE, rows |-> StoreEmbedding(table, article, text),
              index |-> idx, steps |-> {"upsert", "embed"}]
        ELSE [ok |-> TRUE, rows |-> StoreEmbedding(table, article, text),
              index |-> Upsert(idx, article.id, text),
              steps |-> {"upsert", "embed"}]

\* VectorDeduplicator.add_article_to_index: never raises
add_article_to_index(table, idx, article, fails) ==
    LET text == SearchableText(article.title, article.content)
    IN  IF "upsert" \in fails
        THEN [ok |-> FALSE, rows |-> table, index |-> idx, steps |-> {"upsert"}]
        ELSE IF "embed" \in fails
        THEN [ok |-> TRUE, rows |-> table, index |-> Upsert(idx, article.id, text),
              steps |-> {"upsert", "embed"}]
        ELSE [ok |-> TRUE, rows |-> StoreEmbedding(table, article, text),
              index |-> Upsert(idx, article.id, text),
              steps |-> {"upsert", "embed"}]

\* a variant whose lookup never finds a row
HashLookupFindsNothing(table, article, fails) == NoId

\* ContentHashDeduplicator.find_hash_duplicates: the id of a row with the same
\* content_hash other than the article's own, NoId for None
find_hash_duplicates(table, article, fails) ==
    LET same == {r \in table : r.content_hash = article.content_hash /\ r.id # article.id}
    IN  IF "hashq" \in fails \/ same = {} THEN NoId
        ELSE (CHOOSE r \in same : TRUE).id

\* ContentHashDeduplicator.mark_as_hash_duplicate
mark_as_hash_duplicate(table, article, original, fails) ==
    IF "mark" \in fails \/ ~ RowExists(table, article.id)
    THEN [raised |-> TRUE, rows |-> table]
    ELSE [raised |-> FALSE, rows |-> MarkRow(table, article, original)]

\* process_article_for_duplicates on the hash path: original is the row found
HashPath(table, idx, article, original, m) ==
    [raised |-> m.raised, rows |-> m.rows, index |-> idx,
     is_duplicate |-> TRUE, by |-> "hash", original |-> original,
     hits |-> <<>>, steps |-> {"hashq", "mark"}]

\* a variant in which a failed add_article_to_index raises
IndexedPathRaises(c, a) ==
    [raised |-> ~ a.ok, rows |-> a.rows, index |-> a.index,
     is_duplicate |-> FALSE, by |-> "none", original |-> NoId,
     hits |-> c.hits, steps |-> {"hashq"} \cup c.steps \cup a.steps]

\* process_article_for_duplicates once the article, found no duplicate by
\* c, has been through add_article_to_index with result a
IndexedPath(c, a) ==
    [raised |-> FALSE, rows |-> a.rows, index |-> a.index,
     is_duplicate |-> FALSE, by |-> "none", original |-> NoId,
     hits |-> c.hits, steps |-> {"hashq"} \cup c.steps \cup a.steps]

\* a variant that adds to the index the articles it marked as duplicates too
SemanticPathIndexesAll(idx, article, fails, c) ==
    IF c.raised
    THEN [raised |-> TRUE, rows |-> c.rows, index |-> idx,
          is_duplicate |-> TRUE, by |-> "semantic",
          original |-> c.original, hits |-> c.hits,
          steps |-> {"hashq"} \cup c.steps]
    ELSE IF c.dup
    THEN [raised |-> FALSE, rows |-> c.rows,
          index |-> Upsert(idx, article.id,
                           SearchableText(article.title, article.content)),
          is_duplicate |-> TRUE, by |-> "semantic",
          original |-> c.original, hits |-> c.hits,
          steps |-> {"hashq"} \cup c.steps]
    ELSE IndexedPath(c, add_article_to_index(c.rows, idx, article, fails))

\* process_article_for_duplicates on the semantic path: c is what
\* check_and_mark_duplicates did
SemanticPath(idx, article, fails, c) ==
    IF c.raised \/ c.dup
    THEN [raised |-> c.raised, rows |-> c.rows, index |-> idx,
          is_duplicate |-> TRUE, by |-> "semantic",
          original |-> c.original, hits |-> c.hits,
          steps |-> {"hashq"} \cup c.steps]
    ELSE IndexedPath(c, add_article_to_index(c.rows, idx, article, fails))

\* process_article_for_duplicates once find_hash_duplicates has returned
AfterHashLookup(table, idx, article, ranking, fails, hash_duplicate) ==
    IF hash_duplicate # NoId
    THEN HashPath(table, idx, article, hash_duplicate,
                  mark_as_hash_duplicate(table, article, hash_duplicate, fails))
    ELSE SemanticPath(idx, article, fails,
                      check_and_mark_duplicates(table, article, ranking, fails))

\* DuplicationService.process_article_for_duplicates
process_article_for_duplicates(table, idx, article, ranking, fails) ==
    AfterHashLookup(table, idx, article, ranking, fails,
                    find_hash_duplicates(table, article, fails))

-----------------------------------------------------------------------------
(* ScraperFactory *)

\* cls._scrapers[name] = scraper_class on an insertion-ordered dict
DictSet(reg, name, cls) ==
    IF \E k \in 1..Len(reg) : reg[k].name = name
    THEN [k \in 1..Len(reg) |->
            IF reg[k].name = name THEN [name |-> name, cls |-> cls] ELSE reg[k]]
    ELSE Append(reg, [name |-> name, cls |-> cls])

\* cls._scrapers.get(name): the class, or <<>> for None
DictGet(reg, name) ==
    IF \E k \in 1..Len(reg) : reg[k].name = name
    THEN reg[CHOOSE k \in 1..Len(reg) : reg[k].name = name].cls
    ELSE <<>>

\* list(cls._scrapers.keys())
Keys(reg) == [k \in 1..Len(reg) |-> reg[k].name]

\* the classes of the modules in the order os.listdir() gives the files
RECURSIVE ClassesIn(_)
ClassesIn(order) ==
    IF order = <<>> THEN <<>> ELSE Members(Head(order)) \o ClassesIn(Tail(order))

RECURSIVE RegisterAll(_, _)
RegisterAll(reg, classes) ==
    IF classes = <<>> THEN reg
    ELSE RegisterAll(DictSet(reg, ScraperName(Head(classes)), Head(classes)),
                     Tail(classes))

\* the orders os.listdir() may give
ListDirs == {o \in [1..Cardinality(Modules) -> Modules] :
                \A i, j \in DOMAIN o : i # j => o[i] # o[j]}

\* ScraperFactory._discover_scrapers
discover_scrapers(reg, done, order) ==
    IF done THEN reg ELSE RegisterAll(reg, ClassesIn(order))

\* ScraperFactory.create_scraper: "ok" with the class, or the error raised
create_scraper(reg, scraper_type) ==
    LET scraper_class == DictGet(reg, Lower(scraper_type))
    IN  IF scraper_class = <<>> THEN [raised |-> "ValueError", cls |-> <<>>]
        ELSE IF ~ Instantiable(scraper_class)
        THEN [raised |-> "TypeError", cls |-> scraper_class]
        ELSE [raised |-> "no", cls |-> scraper_class]

\* "a", "A", "b", "rssfeed", "zz": the names a caller asks for
NameA == <<97>>
NameUpperA == <<65>>
NameB == <<98>>
NameRSS == <<114, 115, 115, 102, 101, 101, 100>>
NameUnknown == <<122, 122>>

RequestNames == {NameA, NameUpperA, NameB, NameRSS, NameUnknown}

\* "RSSFeed", "c", "C": more names for the factory's own callers
NameMixedRSS == <<82, 83, 83, 70, 101, 101, 100>>
NameCustom == <<99>>
NameUpperCustom == <<67>>

FactoryNames ==
    {NameA, NameUpperA, NameRSS, NameMixedRSS, NameCustom, NameUpperCustom,
     NameUnknown}

\* the names and classes a caller registers by hand; "dict" is not a scraper
RegisterNames == {NameUpperA, NameCustom, NameUpperCustom}

ClsDict == <<100, 105, 99, 116>>

RegisterClasses == {ClsA, ClsB, ClsDict}

\* issubclass(scraper_class, BaseScraper)
IsScraperClass(cls) == cls \in {ClsA, ClsB, ClsRSS}

\* a variant that stores the name as it was given
RegisteredKeyAsGiven(name) == name

\* "name.lower()", the key register_scraper stores under
RegisteredKey(name) == Lower(name)

\* ScraperFactory.register_scraper
register_scraper(reg, name, cls) ==
    IF ~ IsScraperClass(cls)
    THEN [raised |-> "ValueError", reg |-> reg]
    ELSE [raised |-> "no", reg |-> DictSet(reg, RegisteredKey(name), cls)]

\* ScraperFactory.reload_scrapers
reload_scrapers(reg, order) == discover_scrapers(<<>>, FALSE, order)

-----------------------------------------------------------------------------
(* NewsOrchestrationService.scrape_single_source: one record of the loop *)

\* a variant that counts the record before it looks at the URL
SkipRecordCounted(table, seq, idx) ==
    [rows |-> table, nextId |-> seq, index |-> idx, counted |-> 1,
     outcome |-> "skipped", id |-> NoId, original |-> NoId,
     hits |-> <<>>, steps |-> {}]

\* "if NewsArticle.objects.filter(url=...).exists(): continue"
SkipRecord(table, seq, idx) ==
    [rows |-> table, nextId |-> seq, index |-> idx, counted |-> 0,
     outcome |-> "skipped", id |-> NoId, original |-> NoId,
     hits |-> <<>>, steps |-> {}]

\* a variant without transaction.atomic(): what was written stays written
AfterDeduplicationNoRollback(table, seq, s, p) ==
    IF p.raised
    THEN [rows |-> p.rows, nextId |-> s.nextId, index |-> p.index,
          counted |-> 0, outcome |-> "error", id |-> NoId,
          original |-> NoId, hits |-> p.hits,
          steps |-> {"insert"} \cup p.steps]
    ELSE [rows |-> p.rows, nextId |-> s.nextId, index |-> p.index,
          counted |-> IF p.is_duplicate THEN 0 ELSE 1,
          outcome |-> IF p.is_duplicate THEN p.by ELSE "new",
          id |-> s.article.id, original |-> p.original,
          hits |-> p.hits, steps |-> {"insert"} \cup p.steps]

\* a variant that counts every article whose transaction commits
AfterDeduplicationCountsAll(table, seq, s, p) ==
    IF p.raised
    THEN [rows |-> table, nextId |-> seq, index |-> p.index,
          counted |-> 0, outcome |-> "error", id |-> NoId,
          original |-> NoId, hits |-> p.hits,
          steps |-> {"insert"} \cup p.steps]
    ELSE [rows |-> p.rows, nextId |-> s.nextId, index |-> p.index,
          counted |-> 1,
          outcome |-> IF p.is_duplicate THEN p.by ELSE "new",
          id |-> s.article.id, original |-> p.original,
          hits |-> p.hits, steps |-> {"insert"} \cup p.steps]

\* the rest of the transaction once process_article_for_duplicates has
\* returned or raised p for the saved article s
AfterDeduplication(table, seq, s, p) ==
    IF p.raised
    THEN [rows |-> table, nextId |-> seq, index |-> p.index,
          counted |-> 0, outcome |-> "error", id |-> NoId,
          original |-> NoId, hits |-> p.hits,
          steps |-> {"insert"} \cup p.steps]
    ELSE [rows |-> p.rows, nextId |-> s.nextId, index |-> p.index,
          counted |-> IF p.is_duplicate THEN 0 ELSE 1,
          outcome |-> IF p.is_duplicate THEN p.by ELSE "new",
          id |-> s.article.id, original |-> p.original,
          hits |-> p.hits, steps |-> {"insert"} \cup p.steps]

\* the rest of the transaction once article.save() has returned or raised s
AfterSave(table, seq, idx, ranking, fails, s) ==
    IF s.raised
    THEN [rows |-> table, nextId |-> seq, index |-> idx, counted |-> 0,
          outcome |-> "error", id |-> NoId, original |-> NoId,
          hits |-> <<>>, steps |-> {"insert"}]
    ELSE AfterDeduplication(table, seq, s,
             process_article_for_duplicates(s.rows, idx, s.article, ranking, fails))

\* the body of "for article_data in articles_data", one atomic transaction:
\* an exception rolls the store back (not the index) and skips the record
ProcessRecord(table, seq, idx, data, t, ranking, fails) ==
    IF UrlExists(table, data.url)
    THEN SkipRecord(table, seq, idx)
    ELSE AfterSave(table, seq, idx, ranking, fails,
                   Save(table, seq, NewArticle(data, t), fails))

-----------------------------------------------------------------------------
(* Control state *)

NoRun == [mode |-> "none", name |-> <<>>, data |-> <<>>, i |-> 0, count |-> 0,
          fails |-> <<>>, outs |-> <<>>, steps |-> <<>>, rerun |-> FALSE,
          want |-> <<>>, wantSteps |-> <<>>, rows0 |-> {}, index0 |-> {},
          first |-> 0]

NoShadow == [rows |-> {}, nextId |-> 0, index |-> {}, count |-> 0, results |-> <<>>]

NoBatch == [queue |-> <<>>, results |-> <<>>, failed |-> {}, shadow |-> NoShadow]

NoSweep == [cutoff |-> 0, old |-> <<>>, count |-> 0, i |-> 0, attempted |-> {},
            removed |-> {}, refused |-> {}, rows0 |-> {}, index0 |-> {}]

NoRet == [op |-> "none", name |-> <<>>, value |-> 0, raised |-> "no",
          results |-> <<>>, info |-> NoSweep]

NoLast == [valid |-> FALSE]

NoPrev == [valid |-> FALSE, data |-> <<>>, fails |-> <<>>, steps |-> <<>>]

\* no operation is running and the last result has been taken
Idle == pc = "idle"

InitService ==
    /\ rows = {}
    /\ nextId = 1
    /\ index = {}
    /\ now = 0
    /\ scrapers = <<>>
    /\ discovered = FALSE
    /\ pc = "idle"
    /\ run = NoRun
    /\ batch = NoBatch
    /\ sweep = NoSweep
    /\ ret = NoRet
    /\ last = NoLast
    /\ prev = NoPrev

\* the threads that share one RateLimiter, none of them inside is_allowed
Threads == {1, 2}

NoThreads == [t \in Threads |-> [pc |-> "out", now |-> 0, kept |-> <<>>]]

\* no source-run executes in parallel
NoWorkers == <<>>

\* HackerNewsScraper.scrape is not running
NoScrape == [pc |-> "out", n |-> 0, k |-> 0, admitted |-> FALSE, sent |-> <<>>,
             slow |-> 0]

\* RateLimiter.__init__
RateLimiter(max_requests, time_window) ==
    [max_requests |-> max_requests, time_window |-> time_window, requests |-> <<>>]

Init ==
    /\ InitService
    /\ limiter = RateLimiter(DefaultMaxRequests, DefaultTimeWindow)
    /\ clock = 0
    /\ calls = <<>>
    /\ threads = NoThreads
    /\ workers = NoWorkers
    /\ hn = NoScrape

\* the caller takes the result of the finished operation
Acknowledge ==
    /\ pc = "done"
    /\ pc' = "idle"
    /\ ret' = NoRet
    /\ prev' = NoPrev
    /\ last' = NoLast
    /\ UNCHANGED <<limiter, clock, calls, threads, workers, hn, rows, nextId, index, now, scrapers, discovered, run, batch,
                   sweep>>

\* the feeds small enough for the id sequence to stay within MaxId
Fetchable(table, seq) ==
    {d \in Feeds :
        Cardinality({k \in 1..Len(d) : ~ UrlExists(table, d[k].url)}) + seq <= MaxId + 1}

\* what scraper.scrape() may do
Fetches(table, seq) ==
    {[ok |-> FALSE, data |-> <<>>]} \cup
    {[ok |-> TRUE, data |-> d] : d \in Fetchable(table, seq)}

\* a variant without the outer try: the error reaches the caller
FailedRunRaises(name, error) ==
    [NoRet EXCEPT !.op = "scrape_single_source", !.name = name, !.raised = error]

\* scrape_single_source, "except Exception as e: ... return 0"
FailedRun(name, error) ==
    [NoRet EXCEPT !.op = "scrape_single_source", !.name = name, !.value = 0]

\* a variant without the try around a source: the error ends the loop
RecordFailureAborts(b, name) ==
    [b EXCEPT !.queue = <<>>, !.failed = @ \cup {name}]

\* scrape_all_sources, the result of a source that failed: results[name] = 0
RecordFailure(b, name) ==
    [b EXCEPT !.queue = Tail(@),
              !.results = Append(@, [name |-> name, count |-> 0]),
              !.failed = @ \cup {name}]

\* scrape_single_source up to the loop: create the scraper and fetch.
\* fetch is what scraper.scrape() does: raise, or return a list.
BeginRun(name, mode, order, fetch) ==
    LET reg == discover_scrapers(scrapers, discovered, order)
        made == create_scraper(reg, name)
        error == IF made.raised # "no" THEN made.raised ELSE "FetchError"
    IN  /\ scrapers' = reg
        /\ discovered' = TRUE
        /\ prev' = NoPrev
        /\ IF made.raised # "no" \/ ~ fetch.ok
           THEN /\ run' = NoRun
                /\ IF mode = "single"
                   THEN /\ pc' = "done"
                        /\ ret' = FailedRun(name, error)
                        /\ batch' = batch
                   ELSE /\ pc' = "batch"
                        /\ ret' = ret
                        /\ batch' = RecordFailure(batch, name)
           ELSE LET again == prev.valid /\ prev.data = fetch.data
                IN  /\ pc' = "scrape"
                    /\ run' = [mode |-> mode, name |-> IF mode = "all" THEN name ELSE <<>>,
                               data |-> fetch.data,
                               i |-> 1, count |-> 0, fails |-> <<>>, outs |-> <<>>,
                               steps |-> <<>>, rerun |-> again,
                               want |-> IF again THEN prev.fails ELSE <<>>,
                               wantSteps |-> IF again THEN prev.steps ELSE <<>>,
                               rows0 |-> IF again THEN rows ELSE {},
                               index0 |-> IF again THEN index ELSE {},
                               first |-> nextId]
                    /\ ret' = IF mode = "single" THEN NoRet ELSE ret
                    /\ batch' = batch
        /\ UNCHANGED <<limiter, clock, calls, threads, workers, hn, rows, nextId, index, now, sweep, last>>

\* what os.listdir() gives when discovery runs
ListDir == IF discovered THEN {<<>>} ELSE ListDirs

\* a caller invokes scrape_single_source(name)
ScrapeSingle ==
    /\ Idle
    /\ \E name \in RequestNames, order \in ListDir, fetch \in Fetches(rows, nextId) :
            BeginRun(name, "single", order, fetch)

\* a caller invokes scrape_single_source(name) right after a source-run
ScrapeAgain ==
    /\ pc = "done"
    /\ prev.valid
    /\ \E name \in RequestNames, order \in ListDir, fetch \in Fetches(rows, nextId) :
            BeginRun(name, "single", order, fetch)

\* a caller invokes scrape_single_source(name) for a source that returns
\* Art1 alone or the five entries, as long as the first entry is not stored
ScrapeFive ==
    /\ Idle
    /\ \E order \in ListDir, data \in {<<Art1>>, FeedOfFive} :
            /\ ~ UrlExists(rows, data[1].url)
            /\ BeginRun(NameA, "single", order, [ok |-> TRUE, data |-> data])

\* what the source returns on day t: the five old entries on the first day,
\* Art3 and Art4 after it
FeedOfDay(t) == IF t = 0 THEN FeedOfOld ELSE <<Art3, Art4>>

\* a caller invokes scrape_single_source(name) for that source, as long as
\* the first entry is not stored
ScrapeOld ==
    /\ Idle
    /\ ~ UrlExists(rows, FeedOfDay(now)[1].url)
    /\ \E order \in ListDir :
            BeginRun(NameA, "single", order, [ok |-> TRUE, data |-> FeedOfDay(now)])

\* create_scraper has looked the name up in reg: made is what it gives
Created(name, reg, made) ==
    /\ scrapers' = reg
    /\ discovered' = TRUE
    /\ pc' = "done"
    /\ ret' = [NoRet EXCEPT !.op = "create_scraper", !.name = name,
                            !.raised = made.raised, !.results = <<made.cls>>]

\* a caller invokes ScraperFactory.create_scraper(name)
CreateScraper ==
    /\ Idle
    /\ \E name \in FactoryNames, order \in ListDir :
            Created(name, discover_scrapers(scrapers, discovered, order),
                    create_scraper(discover_scrapers(scrapers, discovered, order), name))
    /\ UNCHANGED <<limiter, clock, calls, threads, workers, hn, rows, nextId, index, now, run, batch,
                   sweep, last, prev>>

\* register_scraper has returned or raised g
Registered(name, cls, g) ==
    /\ scrapers' = g.reg
    /\ pc' = "done"
    /\ ret' = [NoRet EXCEPT !.op = "register_scraper", !.name = name,
                            !.raised = g.raised, !.results = <<cls>>]

\* a caller invokes ScraperFactory.register_scraper(name, scraper_class)
RegisterScraper ==
    /\ Idle
    /\ \E name \in RegisterNames, cls \in RegisterClasses :
            Registered(name, cls, register_scraper(scrapers, name, cls))
    /\ UNCHANGED <<limiter, clock, calls, threads, workers, hn, rows, nextId, index, now, discovered, run,
                   batch, sweep, last, prev>>

\* a caller invokes ScraperFactory.reload_scrapers()
ReloadScrapers ==
    /\ Idle
    /\ \E order \in ListDirs : scrapers' = reload_scrapers(scrapers, order)
    /\ discovered' = TRUE
    /\ pc' = "done"
    /\ ret' = [NoRet EXCEPT !.op = "reload_scrapers"]
    /\ UNCHANGED <<limiter, clock, calls, threads, workers, hn, rows, nextId, index, now, run, batch,
                   sweep, last, prev>>

\* a variant without the try around a record: the error ends the run,
\* which returns 0
AdvanceAborts(state, r, fails) ==
    [state EXCEPT !.i = IF r.outcome = "error" THEN Len(state.data) + 1 ELSE @ + 1,
                  !.count = IF r.outcome = "error" THEN 0 ELSE @ + r.counted,
                  !.fails = Append(@, fails),
                  !.outs = Append(@, r.outcome),
                  !.steps = Append(@, r.steps)]

\* the loop goes on to the next record, whatever became of this one:
\* "new_articles_count += 1" / "continue"
Advance(state, r, fails) ==
    [state EXCEPT !.i = @ + 1,
                  !.count = @ + r.counted,
                  !.fails = Append(@, fails),
                  !.outs = Append(@, r.outcome),
                  !.steps = Append(@, r.steps)]

\* the id of a row other than id whose content_hash is h, NoId if none
HashRow(table, h, id) ==
    IF \E x \in table : x.content_hash = h /\ x.id # id
    THEN (CHOOSE x \in table : x.content_hash = h /\ x.id # id).id
    ELSE NoId

\* what is known of a record before it is processed: is its URL stored, and
\* which row has its fingerprint
Observe(data) ==
    [urlStored |-> UrlExists(rows, data.url),
     hashRow |-> HashRow(rows, ContentHash(Truncate(data.title), data.content), NoId)]

\* the state after one iteration whose transaction ended as r; q is the same
\* iteration on the shadow of a full run
Processed(data, fails, before, r, q) ==
    /\ fails \subseteq r.steps
    /\ rows' = r.rows
    /\ nextId' = r.nextId
    /\ index' = r.index
    /\ run' = Advance(run, r, fails)
    /\ last' = [valid |-> TRUE, data |-> data, fails |-> fails,
                urlStored |-> before.urlStored, hashRow |-> before.hashRow,
                outcome |-> r.outcome, id |-> r.id,
                original |-> r.original, hits |-> r.hits,
                steps |-> r.steps, counted |-> r.counted]
    /\ batch' = IF run.mode = "all"
                THEN [batch EXCEPT !.shadow =
                        [@ EXCEPT !.rows = q.rows, !.nextId = q.nextId,
                                  !.index = q.index, !.count = @ + q.counted]]
                ELSE batch

\* the iteration on the shadow of a full run
ShadowRecord(data, ranking, fails) ==
    IF run.mode = "all"
    THEN ProcessRecord(batch.shadow.rows, batch.shadow.nextId, batch.shadow.index,
                       data, now, ranking, fails)
    ELSE SkipRecord(rows, nextId, index)

\* one iteration of the loop over articles_data, the external failures
\* drawn from FS
ProcessWith(FS) ==
    /\ pc = "scrape"
    /\ run.i <= Len(run.data)
    /\ \E fails \in FS,
          ranking \in Rankings(Hits(index, TextOf(run.data[run.i])),
                               TextOf(run.data[run.i]), SearchLimit) :
            Processed(run.data[run.i], fails, Observe(run.data[run.i]),
                      ProcessRecord(rows, nextId, index, run.data[run.i], now,
                                    ranking, fails),
                      ShadowRecord(run.data[run.i], ranking, fails))
    /\ UNCHANGED <<limiter, clock, calls, threads, workers, hn, now, scrapers, discovered, pc, sweep, ret, prev>>

\* one iteration, any step of which may fail
ProcessArticle == ProcessWith(FailSets)

\* one iteration with every external service healthy
ProcessHealthy == ProcessWith({{}})

\* "return new_articles_count"
FinishRun ==
    /\ pc = "scrape"
    /\ run.i > Len(run.data)
    /\ run' = NoRun
    /\ last' = NoLast
    /\ IF run.mode = "single"
       THEN /\ pc' = "done"
            /\ ret' = [NoRet EXCEPT !.op = "scrape_single_source",
                                    !.name = run.name, !.value = run.count]
            /\ prev' = [valid |-> TRUE, data |-> run.data, fails |-> run.fails,
                        steps |-> run.steps]
            /\ batch' = batch
       ELSE /\ pc' = "batch"
            /\ ret' = ret
            /\ prev' = NoPrev
            /\ batch' = [batch EXCEPT
                           !.queue = Tail(@),
                           !.results = Append(@, [name |-> run.name,
                                                  count |-> run.count]),
                           !.shadow = [@ EXCEPT
                               !.results = Append(@, [name |-> run.name,
                                                      count |-> batch.shadow.count]),
                               !.count = 0]]
    /\ UNCHANGED <<limiter, clock, calls, threads, workers, hn, rows, nextId, index, now, scrapers, discovered, sweep>>

-----------------------------------------------------------------------------
(* NewsOrchestrationService.scrape_all_sources *)

\* get_available_scrapers() and the start of the loop.  batch.shadow is the
\* run as it would go over the sources that do not fail, the others absent.
ScrapeAll ==
    /\ Idle
    /\ \E order \in ListDir :
         LET reg == discover_scrapers(scrapers, discovered, order)
         IN  /\ scrapers' = reg
             /\ discovered' = TRUE
             /\ batch' = [queue |-> Keys(reg), results |-> <<>>, failed |-> {},
                          shadow |-> [rows |-> rows, nextId |-> nextId,
                                      index |-> index, count |-> 0,
                                      results |-> <<>>]]
    /\ pc' = "batch"
    /\ UNCHANGED <<limiter, clock, calls, threads, workers, hn, rows, nextId, index, now, run, sweep, ret, last, prev>>

\* "count = self.scrape_single_source(scraper_name)" for the next source
BatchNext ==
    /\ pc = "batch"
    /\ batch.queue # <<>>
    /\ \E order \in ListDir, fetch \in Fetches(rows, nextId) :
            BeginRun(Head(batch.queue), "all", order, fetch)

\* "return results"
BatchDone ==
    /\ pc = "batch"
    /\ batch.queue = <<>>
    /\ pc' = "done"
    /\ ret' = [NoRet EXCEPT !.op = "scrape_all_sources", !.results = batch.results]
    /\ batch' = NoBatch
    /\ UNCHANGED <<limiter, clock, calls, threads, workers, hn, rows, nextId, index, now, scrapers, discovered, run, sweep,
                   last, prev>>

-----------------------------------------------------------------------------
(* NewsOrchestrationService.cleanup_old_articles *)

\* the retention windows a caller asks for, in days
Days == 0..MaxTime

\* NewsArticle.objects.filter(scraped_date__lt=cutoff_date)
Aged(table, cutoff) == {r \in table : r.scraped_date < cutoff}

\* the orders in which the queryset may list the rows
Orderings(S) == {o \in [1..Cardinality(S) -> S] :
                    \A i, j \in DOMAIN o : i # j => o[i] # o[j]}

\* a variant with on_delete=DO_NOTHING: only the rows of D are deleted
NoCascade(table, D) == D

\* on_delete=CASCADE of duplicate_of: the rows deleted along with set D
RECURSIVE Cascade(_, _)
Cascade(table, D) ==
    LET more == {r \in table : r.duplicate_of \in D /\ r.id \notin D}
    IN  IF more = {} THEN D ELSE Cascade(table, D \cup {r.id : r \in more})

\* old_articles.delete()
DeleteAged(table, cutoff) ==
    LET gone == Cascade(table, {r.id : r \in Aged(table, cutoff)})
    IN  {r \in table : r.id \notin gone}

\* a variant that leaves the point in the index
RemoveNothing(idx, id, ok) == idx

\* VectorDeduplicator.remove_article_from_index: logs and swallows a failure
remove_article_from_index(idx, id, ok) == IF ok THEN Delete(idx, id) ELSE idx

\* a variant that does not wait for the end of PHASE 1
Phase1NotAwaited(s) == TRUE

\* "for article in old_articles" has gone through every aged record
Phase1Done(s) == s.i > Len(s.old)

\* cutoff, old_articles, count
CleanupStart ==
    /\ Idle
    /\ \E days \in Days :
         LET cutoff == now - days
             old == {r.id : r \in Aged(rows, cutoff)}
         IN  \E order \in Orderings(old) :
                sweep' = [cutoff |-> cutoff, old |-> order, count |-> Cardinality(old),
                          i |-> 1, attempted |-> {}, removed |-> {}, refused |-> {},
                          rows0 |-> rows, index0 |-> index]
    /\ pc' = "cleanup"
    /\ UNCHANGED <<limiter, clock, calls, threads, workers, hn, rows, nextId, index, now, scrapers, discovered, run, batch,
                   ret, last, prev>>

\* a variant of PHASE 1 that lets a failed removal reach the caller
CleanupRemoveRaises ==
    /\ pc = "cleanup"
    /\ ~ Phase1Done(sweep)
    /\ \E ok \in BOOLEAN :
         LET id == sweep.old[sweep.i]
             step == [sweep EXCEPT
                        !.i = @ + 1,
                        !.attempted = @ \cup {id},
                        !.removed = IF ok /\ (\E d \in index : d.id = id)
                                    THEN @ \cup {id} ELSE @,
                        !.refused = IF ok THEN @ ELSE @ \cup {id}]
         IN  /\ index' = remove_article_from_index(index, id, ok)
             /\ IF ok
                THEN /\ sweep' = step
                     /\ pc' = pc
                     /\ ret' = ret
                ELSE /\ sweep' = NoSweep
                     /\ pc' = "done"
                     /\ ret' = [NoRet EXCEPT !.op = "cleanup_old_articles",
                                             !.raised = "Exception", !.info = step]
    /\ UNCHANGED <<limiter, clock, calls, threads, workers, hn, rows, nextId, now, scrapers, discovered, run, batch, last, prev>>

\* a variant of PHASE 1 that deletes each record's row right after its vector
CleanupRemoveThenDelete ==
    /\ pc = "cleanup"
    /\ ~ Phase1Done(sweep)
    /\ \E ok \in BOOLEAN :
         LET id == sweep.old[sweep.i]
         IN  /\ index' = remove_article_from_index(index, id, ok)
             /\ rows' = {r \in rows : r.id \notin Cascade(rows, {id})}
             /\ sweep' = [sweep EXCEPT
                            !.i = @ + 1,
                            !.attempted = @ \cup {id},
                            !.removed = IF ok /\ (\E d \in index : d.id = id)
                                        THEN @ \cup {id} ELSE @,
                            !.refused = IF ok THEN @ ELSE @ \cup {id}]
    /\ UNCHANGED <<limiter, clock, calls, threads, workers, hn, nextId, now, scrapers, discovered, pc, run, batch, ret,
                   last, prev>>

\* PHASE 1, one iteration: remove one aged record's vector; OK holds what
\* the index may answer, TRUE for done and FALSE for a failure
CleanupRemoveWith(OK) ==
    /\ pc = "cleanup"
    /\ ~ Phase1Done(sweep)
    /\ \E ok \in OK :
         LET id == sweep.old[sweep.i]
         IN  /\ index' = remove_article_from_index(index, id, ok)
             /\ sweep' = [sweep EXCEPT
                            !.i = @ + 1,
                            !.attempted = @ \cup {id},
                            !.removed = IF ok /\ (\E d \in index : d.id = id)
                                        THEN @ \cup {id} ELSE @,
                            !.refused = IF ok THEN @ ELSE @ \cup {id}]
    /\ UNCHANGED <<limiter, clock, calls, threads, workers, hn, rows, nextId, now, scrapers, discovered, pc, run, batch, ret,
                   last, prev>>

\* PHASE 1, one iteration, which the index may fail
CleanupRemove == CleanupRemoveWith(BOOLEAN)

\* PHASE 1, one iteration with the index healthy
CleanupRemoveHealthy == CleanupRemoveWith({TRUE})

\* PHASE 2: delete the aged rows, return count
CleanupDelete ==
    /\ pc = "cleanup"
    /\ Phase1Done(sweep)
    /\ rows' = DeleteAged(rows, sweep.cutoff)
    /\ pc' = "done"
    /\ ret' = [NoRet EXCEPT !.op = "cleanup_old_articles", !.value = sweep.count,
                            !.info = sweep]
    /\ sweep' = NoSweep
    /\ UNCHANGED <<limiter, clock, calls, threads, workers, hn, nextId, index, now, scrapers, discovered, run, batch, last, prev>>

\* the process stops in the middle of the sweep
CleanupCrash ==
    /\ pc = "cleanup"
    /\ pc' = "done"
    /\ ret' = [NoRet EXCEPT !.op = "cleanup_crashed", !.raised = "crash",
                            !.info = sweep]
    /\ sweep' = NoSweep
    /\ UNCHANGED <<limiter, clock, calls, threads, workers, hn, rows, nextId, index, now, scrapers, discovered, run, batch,
                   last, prev>>

\* a day passes
Tick ==
    /\ Idle
    /\ now < MaxTime
    /\ now' = now + 1
    /\ UNCHANGED <<limiter, clock, calls, threads, workers, hn, rows, nextId, index, scrapers, discovered, pc, run, batch,
                   sweep, ret, last, prev>>

-----------------------------------------------------------------------------
(* management command scrape_news *)

\* Command.handle for "--source name": what the operator gets from the
\* result r of scrape_single_source
handle(r) == IF r.raised # "no" THEN "CommandError" ELSE "Successfully scraped"

-----------------------------------------------------------------------------
(* DuplicationService.process_article_for_duplicates called on its own *)

\* the content_hash values a caller may have set on the instance it passes
CallerHashes == {ContentHash(Truncate(a.title), a.content) : a \in Arts}

\* the state after the call for article, an instance of row r, ended as p
Called(r, article, fails, wouldHit, p) ==
    /\ fails \subseteq p.steps
    /\ rows' = p.rows
    /\ index' = p.index
    /\ ret' = [NoRet EXCEPT
                 !.op = "process_article_for_duplicates",
                 !.value = IF p.is_duplicate /\ ~ p.raised THEN 1 ELSE 0,
                 !.raised = IF p.raised THEN "Exception" ELSE "no"]
    /\ last' = [valid |-> TRUE,
                data |-> [url |-> r.url, title |-> r.title, content |-> r.content],
                fails |-> fails,
                urlStored |-> TRUE,
                hashRow |-> HashRow(rows, article.content_hash, r.id),
                outcome |-> IF p.raised THEN "error"
                            ELSE IF p.is_duplicate THEN p.by
                            ELSE "new",
                id |-> r.id, original |-> p.original,
                hits |-> p.hits, steps |-> p.steps, counted |-> 0,
                wouldHit |-> wouldHit]

\* the instance a caller passes: row r with content_hash set to h
Instance(r, h) == [r EXCEPT !.content_hash = h]

\* a caller passes an instance of a stored row whose content_hash attribute
\* it has set; no transaction surrounds the call
DirectCall ==
    /\ Idle
    /\ \E r \in rows, h \in CallerHashes, fails \in FailSets :
         \E ranking \in Rankings(Hits(index, SearchableText(r.title, r.content)),
                                  SearchableText(r.title, r.content), SearchLimit) :
            Called(r, Instance(r, h), fails,
                   Resolve(rows, r, ranking, SearchableText(r.title, r.content)) # <<>>,
                   process_article_for_duplicates(rows, index, Instance(r, h),
                                                  ranking, fails))
    /\ pc' = "done"
    /\ UNCHANGED <<limiter, clock, calls, threads, workers, hn, nextId, now, scrapers, discovered, run, batch, sweep, prev>>

-----------------------------------------------------------------------------
(* RateLimiter *)

\* a variant that keeps a request until it is older than the window
StillInWindowInclusive(t, req_time, time_window) == t - req_time <= time_window

\* "now - req_time < self.time_window"
StillInWindow(t, req_time, time_window) == t - req_time < time_window

\* "[req_time for req_time in self.requests if now - req_time < self.time_window]"
RECURSIVE Kept(_, _, _)
Kept(requests, t, time_window) ==
    IF requests = <<>> THEN <<>>
    ELSE IF StillInWindow(t, Head(requests), time_window)
    THEN <<Head(requests)>> \o Kept(Tail(requests), t, time_window)
    ELSE Kept(Tail(requests), t, time_window)

\* a variant that admits one request more
UnderLimitInclusive(n, max_requests) == n <= max_requests

\* "len(self.requests) < self.max_requests"
UnderLimit(n, max_requests) == n < max_requests

\* is_allowed once the old requests have been removed
Admission(self, t, kept) ==
    IF UnderLimit(Len(kept), self.max_requests)
    THEN [self |-> [self EXCEPT !.requests = Append(kept, t)], result |-> TRUE]
    ELSE [self |-> [self EXCEPT !.requests = kept], result |-> FALSE]

\* RateLimiter.is_allowed at time t
is_allowed(self, t) == Admission(self, t, Kept(self.requests, t, self.time_window))

\* min(self.requests)
RECURSIVE MinOf(_)
MinOf(requests) ==
    IF Len(requests) = 1 THEN requests[1]
    ELSE Min(Head(requests), MinOf(Tail(requests)))

\* RateLimiter.wait_time at time t
wait_time(self, t) ==
    IF self.requests = <<>> THEN 0
    ELSE IF self.time_window - (t - MinOf(self.requests)) > 0
    THEN self.time_window - (t - MinOf(self.requests))
    ELSE 0

\* the limiters the model constructs
Limiters ==
    {RateLimiter(m, w) : m \in 0..MaxRequests, w \in 0..MaxWindow}

InitLimiter ==
    /\ InitService
    /\ limiter \in Limiters
    /\ clock = 0
    /\ calls = <<>>
    /\ threads = NoThreads
    /\ workers = NoWorkers
    /\ hn = NoScrape

\* the record of a call in the history
Call(op, t, result, value) == [op |-> op, t |-> t, result |-> result, value |-> value]

\* what is_allowed leaves behind: a is its outcome
Allowed(a) ==
    /\ limiter' = a.self
    /\ calls' = Append(calls, Call("is_allowed", clock, a.result, 0))

\* a caller asks is_allowed()
IsAllowed ==
    /\ Len(calls) < MaxCalls
    /\ Allowed(is_allowed(limiter, clock))
    /\ UNCHANGED <<clock, threads, workers, hn, service>>

\* a caller asks wait_time()
WaitTime ==
    /\ Len(calls) < MaxCalls
    /\ calls' = Append(calls, Call("wait_time", clock, FALSE, wait_time(limiter, clock)))
    /\ UNCHANGED <<limiter, clock, threads, workers, hn, service>>

\* time.time() moves on
ClockTick ==
    /\ clock < MaxClock
    /\ clock' = clock + 1
    /\ UNCHANGED <<limiter, calls, threads, workers, hn, service>>

-----------------------------------------------------------------------------
(* RateLimiter.is_allowed entered by two threads: each statement is a step *)

\* thread t is at pc with the locals now and kept
At(t, pc_, now_, kept_) ==
    threads' = [threads EXCEPT ![t] = [pc |-> pc_, now |-> now_, kept |-> kept_]]

\* the calls begun so far, finished or not
Begun == Len(calls) + Cardinality({t \in Threads : threads[t].pc # "out"})

\* "now = time.time()"
ThreadEnter(t) ==
    /\ threads[t].pc = "out"
    /\ Begun < MaxCalls
    /\ At(t, "filter", clock, <<>>)
    /\ UNCHANGED <<limiter, clock, calls, workers, hn, service>>

\* the list comprehension reads self.requests and builds the new list
ThreadFilter(t) ==
    /\ threads[t].pc = "filter"
    /\ At(t, "store", threads[t].now,
          Kept(limiter.requests, threads[t].now, limiter.time_window))
    /\ UNCHANGED <<limiter, clock, calls, workers, hn, service>>

\* "self.requests = [...]" binds the attribute to the new list
ThreadStore(t) ==
    /\ threads[t].pc = "store"
    /\ limiter' = [limiter EXCEPT !.requests = threads[t].kept]
    /\ At(t, "check", threads[t].now, <<>>)
    /\ UNCHANGED <<clock, calls, workers, hn, service>>

\* "if len(self.requests) < self.max_requests", and "return False" if not
ThreadCheck(t) ==
    /\ threads[t].pc = "check"
    /\ IF UnderLimit(Len(limiter.requests), limiter.max_requests)
       THEN /\ At(t, "append", threads[t].now, <<>>)
            /\ calls' = calls
       ELSE /\ At(t, "out", 0, <<>>)
            /\ calls' = Append(calls, Call("is_allowed", threads[t].now, FALSE, 0))
    /\ UNCHANGED <<limiter, clock, workers, hn, service>>

\* "self.requests.append(now)" and "return True"
ThreadAppend(t) ==
    /\ threads[t].pc = "append"
    /\ limiter' = [limiter EXCEPT !.requests = Append(@, threads[t].now)]
    /\ At(t, "out", 0, <<>>)
    /\ calls' = Append(calls, Call("is_allowed", threads[t].now, TRUE, 0))
    /\ UNCHANGED <<clock, workers, hn, service>>

-----------------------------------------------------------------------------
(* HackerNewsScraper.scrape.  Time is counted in ticks of 0.1 s, the delay
   before each item request.  The articles built from the responses are
   not represented. *)

\* HackerNewsScraper.__init__: "RateLimiter(max_requests=10, time_window=60)"
InitHN ==
    /\ InitService
    /\ limiter = RateLimiter(HNMaxRequests, HNTimeWindow * TicksPerSecond)
    /\ clock = 0
    /\ calls = <<>>
    /\ threads = NoThreads
    /\ workers = NoWorkers
    /\ hn = NoScrape

\* STAGE 1: GET /topstories.json, which fails or gives the ids, of which
\* the first max_stories are kept
HNStart ==
    /\ hn.pc = "out"
    /\ \E ok \in BOOLEAN :
          hn' = IF ok THEN [NoScrape EXCEPT !.pc = "ask", !.n = MaxStories, !.k = 1]
                ELSE [NoScrape EXCEPT !.pc = "done"]
    /\ UNCHANGED <<limiter, clock, calls, threads, workers, service>>

\* "if not self.rate_limiter.is_allowed()"
HNAsk ==
    /\ hn.pc = "ask"
    /\ hn.k <= hn.n
    /\ Allowed(is_allowed(limiter, clock))
    /\ hn' = [hn EXCEPT !.pc = IF is_allowed(limiter, clock).result
                                THEN "delay" ELSE "refused",
                        !.admitted = is_allowed(limiter, clock).result]
    /\ UNCHANGED <<clock, threads, workers, service>>

\* "wait_time = self.rate_limiter.wait_time()" and "time.sleep(wait_time)"
HNWait ==
    /\ hn.pc = "refused"
    /\ calls' = Append(calls, Call("wait_time", clock, FALSE, wait_time(limiter, clock)))
    /\ clock' = clock + wait_time(limiter, clock)
    /\ hn' = [hn EXCEPT !.pc = "delay"]
    /\ UNCHANGED <<limiter, threads, workers, service>>

\* the ticks a response may take beyond the first: one more for at most
\* MaxSlow of the requests
Latencies == IF hn.slow < MaxSlow THEN {0, 1} ELSE {0}

\* "time.sleep(0.1)" and the GET of /item/{story_id}.json; whatever comes
\* back, the loop goes on to the next id
HNSend ==
    /\ hn.pc = "delay"
    /\ \E d \in Latencies :
          /\ clock' = clock + 1 + d
          /\ hn' = [hn EXCEPT !.pc = "ask", !.k = @ + 1, !.slow = @ + d,
                              !.sent = Append(@, [t |-> clock + 1,
                                                  admitted |-> hn.admitted])]
    /\ UNCHANGED <<limiter, calls, threads, workers, service>>

\* "return articles"
HNReturn ==
    /\ hn.pc = "ask"
    /\ hn.k > hn.n
    /\ hn' = [hn EXCEPT !.pc = "done"]
    /\ UNCHANGED <<limiter, clock, calls, threads, workers, service>>

-----------------------------------------------------------------------------
(* Two source-runs at the same time: each statement of the transaction of a
   record is a step.  A run reads the committed rows and its own. *)

\* what the worker actions leave alone
outside == <<limiter, clock, calls, threads, hn, now, scrapers, discovered, pc,
             run, batch, sweep, ret, last, prev>>

Workers == {1, 2}

\* the feeds of the two runs: one or two records each
WorkerFeeds == {d \in Feeds : d # <<>>}

\* a run at the head of its loop over data
Worker(data) ==
    [data |-> data, i |-> 1, pc |-> "check", own |-> {}, outs |-> <<>>, count |-> 0]

\* the rows the transaction of worker w sees
View(w) == rows \cup workers[w].own

\* the record worker w is at
Record(w) == workers[w].data[workers[w].i]

\* the row worker w has inserted and not committed
OwnRow(w) == CHOOSE r \in workers[w].own : TRUE

\* the row with the id of article in table, as a transaction's own
Own(table, article) == {r \in table : r.id = article.id}

\* another transaction holds an uncommitted row with the url or content_hash
\* of article: the INSERT waits for that transaction to end
InsertWaits(w, article) ==
    \E v \in Workers \ {w} :
        ~ UniqueOk(workers[v].own,
                   [article EXCEPT !.content_hash =
                        ContentHash(article.title, article.content)])

\* the loop of worker w goes on to its next record
NextRecord(w, outcome, counted) ==
    workers' = [workers EXCEPT ![w] =
                   [@ EXCEPT !.i = @ + 1, !.pc = "check", !.own = {},
                             !.outs = Append(@, outcome),
                             !.count = @ + counted]]

\* two callers invoke scrape_single_source at the same time
StartWorkers ==
    /\ Idle
    /\ workers = NoWorkers
    /\ \E f1 \in WorkerFeeds, f2 \in WorkerFeeds :
            /\ nextId + Len(f1) + Len(f2) <= MaxId + 1
            /\ workers' = <<Worker(f1), Worker(f2)>>
    /\ UNCHANGED <<rows, nextId, index, outside>>

\* "if NewsArticle.objects.filter(url=article_data.url).exists(): continue"
WorkerCheck(w) ==
    /\ workers # NoWorkers
    /\ workers[w].pc = "check"
    /\ workers[w].i <= Len(workers[w].data)
    /\ IF UrlExists(View(w), Record(w).url)
       THEN NextRecord(w, "skipped", 0)
       ELSE workers' = [workers EXCEPT ![w].pc = "save"]
    /\ UNCHANGED <<rows, nextId, index, outside>>

\* "article.save()": the INSERT, which raises IntegrityError against a
\* committed row and is caught by "except Exception" around the record
WorkerSave(w) ==
    /\ workers # NoWorkers
    /\ workers[w].pc = "save"
    /\ ~ InsertWaits(w, NewArticle(Record(w), now))
    /\ LET s == Save(rows, nextId, NewArticle(Record(w), now), {})
       IN  /\ nextId' = s.nextId
           /\ IF s.raised
              THEN NextRecord(w, "error", 0)
              ELSE workers' = [workers EXCEPT ![w].pc = "search",
                                              ![w].own = {s.article}]
    /\ UNCHANGED <<rows, index, outside>>

\* process_article_for_duplicates has marked the row of w, rows_ being the
\* view with the marked row, or has found no duplicate
Decided(w, is_duplicate, rows_) ==
    IF is_duplicate
    THEN workers' = [workers EXCEPT ![w].pc = "commit",
                                    ![w].own = Own(rows_, OwnRow(w))]
    ELSE workers' = [workers EXCEPT ![w].pc = "index"]

\* process_article_for_duplicates in the transaction of w once
\* find_hash_duplicates has returned: mark_as_hash_duplicate, or
\* check_and_mark_duplicates with the result of the similarity search
SearchedAfter(w, ranking, hash_duplicate) ==
    IF hash_duplicate # NoId
    THEN Decided(w, TRUE,
                 mark_as_hash_duplicate(View(w), OwnRow(w), hash_duplicate, {}).rows)
    ELSE Decided(w,
                 check_and_mark_duplicates(View(w), OwnRow(w), ranking, {}).dup,
                 check_and_mark_duplicates(View(w), OwnRow(w), ranking, {}).rows)

\* process_article_for_duplicates up to the decision
WorkerSearch(w) ==
    /\ workers # NoWorkers
    /\ workers[w].pc = "search"
    /\ \E ranking \in Rankings(Hits(index, TextOf(Record(w))),
                                TextOf(Record(w)), SearchLimit) :
            SearchedAfter(w, ranking, find_hash_duplicates(View(w), OwnRow(w), {}))
    /\ UNCHANGED <<rows, nextId, index, outside>>

\* add_article_to_index: the vector is visible to every run at once, the
\* embedding is written to the row of the transaction
WorkerIndex(w) ==
    /\ workers # NoWorkers
    /\ workers[w].pc = "index"
    /\ LET a == add_article_to_index(View(w), index, OwnRow(w), {})
       IN  /\ index' = a.index
           /\ workers' = [workers EXCEPT ![w].pc = "commit",
                                          ![w].own = Own(a.rows, OwnRow(w))]
    /\ UNCHANGED <<rows, nextId, outside>>

\* the end of "with transaction.atomic()": COMMIT, then the count
WorkerCommit(w) ==
    /\ workers # NoWorkers
    /\ workers[w].pc = "commit"
    /\ rows' = rows \cup workers[w].own
    /\ IF OwnRow(w).is_duplicate
       THEN NextRecord(w, "duplicate", 0)
       ELSE NextRecord(w, "new", 1)
    /\ UNCHANGED <<nextId, index, outside>>

\* "return new_articles_count"
WorkerReturn(w) ==
    /\ workers # NoWorkers
    /\ workers[w].pc = "check"
    /\ workers[w].i > Len(workers[w].data)
    /\ workers' = [workers EXCEPT ![w].pc = "done"]
    /\ UNCHANGED <<rows, nextId, index, outside>>

\* both callers have their results
JoinWorkers ==
    /\ workers # NoWorkers
    /\ \A w \in Workers : workers[w].pc = "done"
    /\ workers' = NoWorkers
    /\ UNCHANGED <<rows, nextId, index, outside>>

-----------------------------------------------------------------------------
(* Specifications *)

\* source-runs, any step of which may fail
Next ==
    \/ ScrapeSingle
    \/ ScrapeAgain
    \/ ProcessArticle
    \/ FinishRun
    \/ Acknowledge

Spec == Init /\ [][Next]_vars

\* source-runs with healthy services, the passing of time, cleanups
NextCleanup ==
    \/ ScrapeSingle
    \/ ProcessHealthy
    \/ FinishRun
    \/ Acknowledge
    \/ CleanupStart
    \/ CleanupRemove
    \/ CleanupDelete
    \/ CleanupCrash
    \/ Tick

SpecCleanup == Init /\ [][NextCleanup]_vars

\* full runs over every registered source

NextBatch ==
    \/ ScrapeAll
    \/ BatchNext
    \/ ProcessArticle
    \/ FinishRun
    \/ BatchDone
    \/ Acknowledge

SpecBatch == Init /\ [][NextBatch]_vars

\* source-runs with healthy services, and direct calls of the deduplication
NextDirect ==
    \/ ScrapeSingle
    \/ ProcessHealthy
    \/ FinishRun
    \/ Acknowledge
    \/ DirectCall

SpecDirect == Init /\ [][NextDirect]_vars

\* source-runs, any step of which may fail, the passing of time, cleanups
NextStore ==
    \/ ScrapeSingle
    \/ ProcessArticle
    \/ FinishRun
    \/ Acknowledge
    \/ CleanupStart
    \/ CleanupRemove
    \/ CleanupDelete
    \/ CleanupCrash
    \/ Tick

SpecStore == Init /\ [][NextStore]_vars

\* runs of a source that returns one entry, then five
NextFive ==
    \/ ScrapeFive
    \/ ProcessArticle
    \/ FinishRun
    \/ Acknowledge

SpecFive == Init /\ [][NextFive]_vars

\* runs and cleanups one after another, every external service healthy and
\* no process stopped
NextHealthy ==
    \/ ScrapeSingle
    \/ ProcessHealthy
    \/ FinishRun
    \/ Acknowledge
    \/ CleanupStart
    \/ CleanupRemoveHealthy
    \/ CleanupDelete
    \/ Tick

SpecHealthy == Init /\ [][NextHealthy]_vars

\* healthy runs over old entries that a cleanup, some of whose removals fail,
\* deletes while newer ones stay
NextOrphans ==
    \/ ScrapeOld
    \/ ProcessHealthy
    \/ FinishRun
    \/ Acknowledge
    \/ CleanupStart
    \/ CleanupRemove
    \/ CleanupDelete
    \/ Tick

SpecOrphans == Init /\ [][NextOrphans]_vars

\* the factory and its callers
NextFactory ==
    \/ CreateScraper
    \/ RegisterScraper
    \/ ReloadScrapers
    \/ Acknowledge

SpecFactory == Init /\ [][NextFactory]_vars

\* one RateLimiter and its callers
NextLimiter ==
    \/ IsAllowed
    \/ WaitTime
    \/ ClockTick

SpecLimiter == InitLimiter /\ [][NextLimiter]_vars

\* one RateLimiter and two threads that call is_allowed
NextThreads ==
    \/ \E t \in Threads : ThreadEnter(t)
    \/ \E t \in Threads : ThreadFilter(t)
    \/ \E t \in Threads : ThreadStore(t)
    \/ \E t \in Threads : ThreadCheck(t)
    \/ \E t \in Threads : ThreadAppend(t)
    \/ ClockTick

SpecThreads == InitLimiter /\ [][NextThreads]_vars

\* one scrape of Hacker News
NextHN ==
    \/ HNStart
    \/ HNAsk
    \/ HNWait
    \/ HNSend
    \/ HNReturn

SpecHN == InitHN /\ [][NextHN]_vars

\* two source-runs in parallel, every external service healthy
NextWorkers ==
    \/ StartWorkers
    \/ \E w \in Workers : WorkerCheck(w)
    \/ \E w \in Workers : WorkerSave(w)
    \/ \E w \in Workers : WorkerSearch(w)
    \/ \E w \in Workers : WorkerIndex(w)
    \/ \E w \in Workers : WorkerCommit(w)
    \/ \E w \in Workers : WorkerReturn(w)
    \/ JoinWorkers

SpecWorkers == Init /\ [][NextWorkers]_vars

-----------------------------------------------------------------------------
(* Properties *)

\* the ids of the rows of a table
Ids(table) == {r.id : r \in table}

\* the steps whose failure the deduplicators swallow
Swallowed == {"hashq", "query", "upsert", "embed"}

\* the steps whose failure leaves the record's transaction
Propagated == {"insert", "mark"}

\* the run has gone through every record of the fetch
RunOver == pc = "scrape" /\ run.i > Len(run.data)

\* the records of the running source-run that came out new
NewRecords == {k \in 1..Len(run.outs) : run.outs[k] = "new"}

\* C1: a fetched record whose URL is not stored and whose fingerprint equals
\* the content_hash of a stored row is persisted with is_duplicate set and
\* duplicate_of that row, and is not counted (all services healthy).
C1_HashDuplicatePersisted ==
    (/\ pc = "scrape"
     /\ last.valid
     /\ last.fails = {}
     /\ ~ last.urlStored
     /\ last.hashRow # NoId)
    => /\ \E r \in rows : /\ r.url = last.data.url
                          /\ r.is_duplicate
                          /\ r.duplicate_of = last.hashRow
       /\ last.counted = 0

\* C2: when process_article_for_duplicates is called for an article and the
\* hash lookup finds a row with the same content_hash, no similarity search,
\* no upsert and no embedding call is made, and, unless the UPDATE raises, the
\* article is marked a duplicate of that row and the call returns True.
C2_HashPathWins ==
    (/\ ret.op = "process_article_for_duplicates"
     /\ last.valid
     /\ last.hashRow # NoId
     /\ "hashq" \notin last.fails)
    => /\ last.steps \cap {"query", "upsert", "embed"} = {}
       /\ last.outcome # "error" =>
            /\ last.outcome = "hash"
            /\ ret.value = 1
            /\ \E r \in rows : /\ r.id = last.id
                               /\ r.is_duplicate
                               /\ r.duplicate_of = last.hashRow

\* a hash hit for an article that also has a semantic match in the index
C2_Witness ==
    /\ ret.op = "process_article_for_duplicates"
    /\ last.valid
    /\ last.hashRow # NoId
    /\ last.outcome = "hash"
    /\ last.wouldHit

\* the services behave in the rerun as they did in the first run: a step
\* both runs take for a record fails in both or in neither
SameBehaviour ==
    \A k \in 1..Len(run.fails) :
        run.fails[k] \cap run.wantSteps[k] = run.want[k] \cap run.steps[k]

\* C3: a source-run that follows a source-run over the same feed, with the
\* services behaving the same, counts nothing and leaves the store and the
\* index as they were.
C3_RerunAddsNothing ==
    (pc = "scrape" /\ run.rerun /\ SameBehaviour)
    => /\ run.count = 0
       /\ rows = run.rows0
       /\ index = run.index0

\* the rerun of a feed of which the first run stored one record and lost
\* another to a failure, which fails again
C3_Witness ==
    /\ RunOver
    /\ run.rerun
    /\ SameBehaviour
    /\ \E k \in 1..Len(run.outs) : run.outs[k] = "skipped"
    /\ \E k \in 1..Len(run.outs) : run.outs[k] = "error" /\ run.fails[k] # {}

\* C4 as stated: after a crash of cleanup_old_articles no row is left whose
\* vector the sweep has removed.
C4_NoRowWithoutVector ==
    ret.op = "cleanup_crashed" => \A r \in rows : r.id \notin ret.info.removed

\* C4 amended: a crash of cleanup_old_articles leaves every store row in
\* place and creates no orphaned vector; what it can leave is aged rows
\* whose vectors are gone.
C4_CrashLeavesRows ==
    ret.op = "cleanup_crashed" =>
        /\ rows = ret.info.rows0
        /\ index = {d \in ret.info.index0 : d.id \notin ret.info.removed}
        /\ ret.info.removed \subseteq Ids(Aged(rows, ret.info.cutoff))

\* a crash after the vector of an aged row has been removed
C4_Witness ==
    /\ ret.op = "cleanup_crashed"
    /\ ret.info.removed # {}
    /\ \E r \in rows : r.id \in ret.info.removed

\* C5: a row is deleted only by the sweep, and an aged row only after the
\* removal of its vector has been attempted; the other rows deleted are the
\* duplicates that go with an aged original (on_delete=CASCADE).
C5_RemovalAttemptedFirst ==
    [][\A r \in rows :
         ~ RowExists(rows', r.id) =>
            /\ pc = "cleanup"
            /\ r.scraped_date < sweep.cutoff => r.id \in sweep.attempted
            /\ r.scraped_date >= sweep.cutoff => r.duplicate_of # NoId]_vars

\* a sweep that has attempted a removal and then deleted the row
C5_Witness ==
    /\ ret.op = "cleanup_old_articles"
    /\ ret.info.attempted # {}
    /\ \E r \in ret.info.rows0 : r.id \in ret.info.attempted /\ ~ RowExists(rows, r.id)

\* C6: whichever removals fail, cleanup_old_articles ends without an error,
\* no aged row is left and it returns the number of rows that were aged.
C6_FailuresDoNotBlock ==
    ret.op = "cleanup_old_articles" =>
        /\ ret.raised = "no"
        /\ Aged(rows, ret.info.cutoff) = {}
        /\ ret.value = Cardinality(Aged(ret.info.rows0, ret.info.cutoff))

\* a sweep over two aged rows, the removal failing for one of them
C6_Witness ==
    /\ ret.op = "cleanup_old_articles"
    /\ ret.info.refused # {}
    /\ ret.info.refused # ret.info.attempted
    /\ ret.value = 2

\* the entries of a result list for the sources that did not fail
RECURSIVE Succeeded(_, _)
Succeeded(results, failed) ==
    IF results = <<>> THEN <<>>
    ELSE IF Head(results).name \in failed THEN Succeeded(Tail(results), failed)
    ELSE <<Head(results)>> \o Succeeded(Tail(results), failed)

\* C7: when scrape_all_sources has gone through the sources, its results hold
\* one entry per registered source, a source whose creation or fetch failed
\* has 0, and the other counts, the store and the index are those of the run
\* without the failed sources.
C7_OneEntryPerSource ==
    (pc = "batch" /\ batch.queue = <<>>) =>
        /\ Len(batch.results) = Len(scrapers)
        /\ \A k \in 1..Len(scrapers) : batch.results[k].name = scrapers[k].name
        /\ \A j, k \in 1..Len(scrapers) : scrapers[j].name = scrapers[k].name => j = k
        /\ \A k \in 1..Len(batch.results) :
              batch.results[k].name \in batch.failed => batch.results[k].count = 0
        /\ Succeeded(batch.results, batch.failed) = batch.shadow.results
        /\ rows = batch.shadow.rows
        /\ index = batch.shadow.index

\* a full run in which a source fails and a later source adds a record
C7_Witness ==
    /\ pc = "batch"
    /\ batch.queue = <<>>
    /\ \E j, k \in 1..Len(batch.results) :
          /\ j < k
          /\ batch.results[j].name \in batch.failed
          /\ batch.results[k].count > 0

\* C8 as stated: when a step fails for exactly one record of a source-run,
\* the run returns the number of the other records that came out new.
C8_FailedRecordNotCounted ==
    RunOver =>
        \A k \in 1..Len(run.fails) :
            (run.fails[k] # {} /\ \A j \in 1..Len(run.fails) : j # k => run.fails[j] = {})
            => run.count = Cardinality(NewRecords \ {k})

\* C8 amended: every record of the fetch is processed and the run counts the
\* records that came out new, whatever fails.  A failed INSERT or marking
\* UPDATE skips the record; a failed hash lookup, similarity search, upsert
\* or embedding is swallowed, and the record is stored and counted unless it
\* is a duplicate.
C8_ErrorsSkipOnlyTheRecord ==
    pc = "scrape" =>
        /\ Len(run.outs) = run.i - 1
        /\ run.i <= Len(run.data) + 1
        /\ run.count = Cardinality(NewRecords)
        /\ \A k \in 1..Len(run.outs) :
              /\ run.fails[k] \cap Propagated # {} => run.outs[k] = "error"
              /\ (run.fails[k] # {} /\ run.fails[k] \subseteq Swallowed)
                    => run.outs[k] \in {"new", "semantic"}

\* a run whose first record is lost to a failure and whose second is new
C8_Witness ==
    /\ RunOver
    /\ Len(run.outs) = 2
    /\ run.outs[1] = "error"
    /\ run.fails[1] # {}
    /\ run.outs[2] = "new"
    /\ run.count = 1

\* C9 as stated: scrape_single_source for a name that is not registered
\* ends with an error for the caller.
C9_UnknownSourceSurfaces ==
    (ret.op = "scrape_single_source" /\ ret.name = NameUnknown)
    => (ret.raised # "no" \/ handle(ret) = "CommandError")

\* C9 amended: scrape_single_source for a name that is not registered
\* returns 0 without an error, and the command reports success.
C9_UnknownSourceReturnsZero ==
    (/\ ret.op = "scrape_single_source"
     /\ ret.name # <<>>
     /\ create_scraper(scrapers, ret.name).raised = "ValueError")
    => /\ ret.raised = "no"
       /\ ret.value = 0
       /\ handle(ret) = "Successfully scraped"

\* scrape_single_source("zz") has returned
C9_Witness ==
    /\ ret.op = "scrape_single_source"
    /\ ret.name = NameUnknown
    /\ ret.value = 0

\* C10: a stored record without a hash match whose processing returns is a
\* semantic duplicate exactly when find_similar_articles gave a hit, and
\* then duplicate_of is a hit no other hit outscores.
C10_TopHitIsOriginal ==
    (/\ pc = "scrape"
     /\ last.valid
     /\ last.hashRow = NoId
     /\ last.outcome \in {"new", "semantic"})
    => /\ last.outcome = "semantic" <=> last.hits # <<>>
       /\ last.outcome = "semantic" =>
            /\ \E k \in 1..Len(last.hits) :
                  /\ last.hits[k].id = last.original
                  /\ \A j \in 1..Len(last.hits) :
                        last.hits[j].score <= last.hits[k].score
            /\ \E r \in rows : /\ r.id = last.id
                               /\ r.is_duplicate
                               /\ r.duplicate_of = last.original

\* a record with two hits of different scores
C10_Witness ==
    /\ pc = "scrape"
    /\ last.valid
    /\ last.outcome = "semantic"
    /\ Len(last.hits) = 2
    /\ last.hits[1].score > last.hits[2].score

\* the points of the index, other than the record's own, whose row exists,
\* with their relevance to the record last processed
Candidates ==
    {[id |-> d.id, score |-> Score(d.text, TextOf(last.data))] :
        d \in {e \in index : e.id # last.id /\ RowExists(rows, e.id)}}

C12_FlagIffReference ==
    \A r \in rows :
        /\ r.is_duplicate <=> r.duplicate_of # NoId
        /\ r.duplicate_of # NoId => RowExists(rows, r.duplicate_of)

\* a sweep has deleted a row and a duplicate is still in the store
C12_Witness ==
    /\ ret.op = "cleanup_old_articles"
    /\ ret.value > 0
    /\ \E r \in rows : r.is_duplicate

\* C13: the row a duplicate_of names is in the store and is not itself a
\* duplicate: references never form a chain.
C13_OriginalIsNotDuplicate ==
    \A r \in rows :
        r.duplicate_of # NoId =>
            \E o \in rows : o.id = r.duplicate_of /\ ~ o.is_duplicate

\* a record came out new although a stored duplicate is within the threshold
\* of it
C13_Witness ==
    /\ pc = "scrape"
    /\ last.valid
    /\ last.fails = {}
    /\ last.outcome = "new"
    /\ \E d \in rows :
          /\ d.is_duplicate
          /\ d.id # last.id
          /\ Score(SearchableText(d.title, d.content), TextOf(last.data)) >= Threshold

\* the rows that hold an embedding
Embedded(table) == {r \in table : r.embedding_vector # NoText}

\* C14: no row marked duplicate holds an embedding, and in the step that
\* stores a row's embedding the row's document has been added to the index.
C14_EmbeddingOnlyForIndexed ==
    /\ [](\A r \in Embedded(rows) : ~ r.is_duplicate /\ r.duplicate_of = NoId)
    /\ [][\A r \in Embedded(rows') :
              r.id \notin Ids(Embedded(rows)) =>
                  \E d \in index' : d.id = r.id /\ d.text = r.embedding_vector]_vars

\* the store holds an indexed row with its embedding, a duplicate, and a row
\* that is neither a duplicate nor embedded
C14_Witness ==
    /\ \E r \in Embedded(rows) : \E d \in index : d.id = r.id
    /\ \E r \in rows : r.is_duplicate
    /\ \E r \in rows \ Embedded(rows) : ~ r.is_duplicate

\* the is_allowed() calls of the history that were admitted
Admitted == {k \in 1..Len(calls) : calls[k].op = "is_allowed" /\ calls[k].result}

\* the is_allowed() calls of the history that were refused
Refused == {k \in 1..Len(calls) : calls[k].op = "is_allowed" /\ ~ calls[k].result}

\* the admitted calls before call k whose time is less than time_window
\* before the time of call k
Trailing(k) ==
    {j \in Admitted : j < k /\ calls[k].t - calls[j].t < limiter.time_window}

\* C15: an is_allowed() call is admitted exactly when fewer than max_requests
\* earlier admitted calls lie in the time_window that ends at the call; no
\* interval (a, a + time_window] holds more than max_requests admitted calls;
\* with max_requests = 0 no call is admitted.
C15_SlidingWindow ==
    /\ \A k \in Admitted \cup Refused :
          k \in Admitted <=> Cardinality(Trailing(k)) < limiter.max_requests
    /\ \A a \in (0 - limiter.time_window)..clock :
          Cardinality({j \in Admitted :
                          a < calls[j].t /\ calls[j].t <= a + limiter.time_window})
              <= limiter.max_requests
    /\ limiter.max_requests = 0 => Admitted = {}

\* a call was refused with the window full, and a later call was admitted
C15_Witness ==
    /\ limiter.max_requests >= 1
    /\ \E k \in Refused :
          /\ Cardinality(Trailing(k)) = limiter.max_requests
          /\ \E j \in Admitted : j > k

\* call k was refused, the next call asked wait_time(), and the call after
\* that is an is_allowed() made no earlier than the reported duration later
WaitedOut(k) ==
    /\ k \in Refused
    /\ k + 2 <= Len(calls)
    /\ calls[k + 1].op = "wait_time"
    /\ calls[k + 2].op = "is_allowed"
    /\ calls[k + 2].t >= calls[k + 1].t + calls[k + 1].value

\* C16: on a limiter with max_requests >= 1, the is_allowed() call made once
\* the duration that wait_time() reported after a refusal has elapsed is
\* admitted.
C16_AdmittedAfterWait ==
    limiter.max_requests >= 1 =>
        \A k \in 1..Len(calls) : WaitedOut(k) => (k + 2) \in Admitted

\* a refused caller was told to wait a positive duration and called again
\* exactly when it had elapsed
C16_Witness ==
    /\ limiter.max_requests >= 1
    /\ \E k \in 1..Len(calls) :
          /\ WaitedOut(k)
          /\ calls[k + 1].value > 0
          /\ calls[k + 2].t = calls[k + 1].t + calls[k + 1].value
          /\ (k + 2) \in Admitted

\* the steps that call the embedding service or the vector index
External == {"query", "upsert", "embed"}

\* the last processed record met a failure of the embedding service or of
\* the vector index, and no other failure
ExternalFailure ==
    /\ pc = "scrape"
    /\ last.valid
    /\ last.fails # {}
    /\ last.fails \subseteq External

\* the index holds a point for the last processed record
LastIndexed == \E d \in index : d.id = last.id

\* the last processed record is stored as a non-duplicate and the loop has
\* gone on
LastPersisted ==
    /\ last.outcome = "new"
    /\ last.counted = 1
    /\ \E r \in rows : r.id = last.id /\ ~ r.is_duplicate /\ r.duplicate_of = NoId
    /\ run.i = Len(run.outs) + 1
    /\ run.outs[run.i - 1] = "new"

\* C17 as stated: a record that met a failure of the embedding service or of
\* the vector index is stored as a non-duplicate, has no point in the index,
\* and the run goes on.
C17_FailureLeavesNoVector ==
    ExternalFailure => (LastPersisted /\ ~ LastIndexed)

\* C17: a record that met a failure of the embedding service or of the vector
\* index is stored as a non-duplicate and the run goes on; it has no point in
\* the index exactly when the failure was that of adding its document.
C17_FailurePersistsNonDuplicate ==
    ExternalFailure =>
        /\ LastPersisted
        /\ "upsert" \in last.fails <=> ~ LastIndexed

\* a record whose document could not be added is stored, not indexed
C17_Witness ==
    /\ ExternalFailure
    /\ "upsert" \in last.fails
    /\ LastPersisted
    /\ ~ LastIndexed
    /\ index # {}

\* the rows of table whose id is first or later and that are not duplicates
CommittedNew(table, first) ==
    {r \in table : r.id >= first /\ ~ r.is_duplicate}

\* a run over the five entries has returned: all services were healthy, no
\* entry's URL was stored, and Art1 was stored and indexed
FiveRan ==
    /\ pc = "done"
    /\ ret.op = "scrape_single_source"
    /\ prev.valid
    /\ prev.data = FeedOfFive
    /\ \A k \in 1..Len(prev.data) : prev.fails[k] = {} /\ prev.steps[k] # {}
    /\ \E r \in rows :
          /\ r.url = Art1.url
          /\ ~ r.is_duplicate
          /\ \E d \in index : d.id = r.id

\* C18: the number scrape_single_source returns is the number of rows the run
\* committed that are not duplicates; for the five entries, of which one
\* repeats another byte for byte and one paraphrases a stored record, it is 3.
C18_CountsCommittedNonDuplicates ==
    /\ [][(pc = "scrape" /\ pc' = "done") =>
              ret'.value = Cardinality(CommittedNew(rows', run.first))]_vars
    /\ [](FiveRan => ret.value = 3)

\* the five entries gave 3: the repeat left no row, the paraphrase a duplicate
C18_Witness ==
    /\ FiveRan
    /\ ret.value = 3
    /\ ~ UrlExists(rows, Art5Repeat.url)
    /\ \E r \in rows : r.url = Art3.url /\ r.is_duplicate
    /\ Cardinality(rows) = 5

\* the names of the factory's callers that equal name after lowercasing
SameLowered(name) == {m \in FactoryNames : Lower(m) = Lower(name)}

\* C19: create_scraper gives a name the outcome it gives every name equal to
\* it after lowercasing, the same class or the same error; a name registered
\* by hand in any letter case is found under each of them.
C19_CaseInsensitiveNames ==
    /\ ret.op = "create_scraper" =>
          \A m \in SameLowered(ret.name) :
              /\ create_scraper(scrapers, m).raised = ret.raised
              /\ <<create_scraper(scrapers, m).cls>> = ret.results
    /\ (ret.op = "register_scraper" /\ ret.raised = "no") =>
          \A m \in SameLowered(ret.name) :
              /\ create_scraper(scrapers, m).raised = "no"
              /\ <<create_scraper(scrapers, m).cls>> = ret.results
    /\ \A n \in FactoryNames, order \in ListDir :
          \A m \in SameLowered(n) :
              create_scraper(discover_scrapers(scrapers, discovered, order), m)
                  = create_scraper(discover_scrapers(scrapers, discovered, order), n)

\* a class was registered as "C" and "c" finds it
C19_Witness ==
    /\ ret.op = "register_scraper"
    /\ ret.raised = "no"
    /\ ret.name = NameUpperCustom
    /\ create_scraper(scrapers, NameCustom).raised = "no"
    /\ <<create_scraper(scrapers, NameCustom).cls>> = ret.results
    /\ discovered

\* the loop is about to process a record whose URL a stored row has
AtStoredUrl ==
    /\ pc = "scrape"
    /\ run.i <= Len(run.data)
    /\ \E r \in rows : r.url = run.data[run.i].url

\* C20: the iteration over a record whose URL is stored makes no call (no
\* INSERT with its fingerprint, no hash lookup, no similarity search, no
\* upsert, no embedding) and leaves the store, the id sequence, the index and
\* the count as they were.
C20_StoredUrlDoesNothing ==
    [][(AtStoredUrl /\ run'.i = run.i + 1) =>
          /\ rows' = rows
          /\ nextId' = nextId
          /\ index' = index
          /\ run'.count = run.count
          /\ last'.outcome = "skipped"
          /\ last'.steps = {}]_vars

\* a record was skipped for its URL while the store and the index hold data
C20_Witness ==
    /\ pc = "scrape"
    /\ last.valid
    /\ last.outcome = "skipped"
    /\ last.steps = {}
    /\ \E r \in rows : r.url = last.data.url /\ \E d \in index : d.id = r.id
    /\ run.count = 0

\* the loop processes one record in this step
RecordStep == pc = "scrape" /\ run.i <= Len(run.data) /\ run'.i = run.i + 1

\* C21: a record whose processing raised leaves the store and the id
\* sequence as they were; a row enters the store only together with its
\* decision: the record came out new and the row is unmarked, or it came out
\* a duplicate and the row is marked with its original.
C21_RowAndDecisionTogether ==
    [][RecordStep =>
          /\ last'.outcome = "error" => (rows' = rows /\ nextId' = nextId)
          /\ \A r \in rows' \ rows :
                /\ r.id \notin Ids(rows) => r.id = last'.id
                /\ last'.outcome \in {"new", "semantic", "hash"}
                /\ last'.outcome = "new" =>
                      (~ r.is_duplicate /\ r.duplicate_of = NoId)
                /\ (last'.outcome # "new" /\ r.id = last'.id) =>
                      (r.is_duplicate /\ r.duplicate_of = last'.original)]_vars

\* the UPDATE that marks a stored record failed: no row of the record is left
C21_Witness ==
    /\ pc = "scrape"
    /\ last.valid
    /\ last.outcome = "error"
    /\ "mark" \in last.fails
    /\ "mark" \in last.steps
    /\ ~ \E r \in rows : r.url = last.data.url
    /\ rows # {}

\* C22: with two threads inside is_allowed, no interval (a, a + time_window]
\* holds more than max_requests admitted calls.
C22_WindowHoldsUnderThreads ==
    \A a \in (0 - limiter.time_window)..clock :
        Cardinality({j \in Admitted :
                        a < calls[j].t /\ calls[j].t <= a + limiter.time_window})
            <= limiter.max_requests

\* the records the parallel runs have gone through, each with its outcome
Finished ==
    IF workers = NoWorkers THEN {}
    ELSE UNION {{[data |-> workers[w].data[k], outcome |-> workers[w].outs[k],
                  by |-> w] : k \in 1..Len(workers[w].outs)} : w \in Workers}

\* the committed rows with the URL of data
RowsOf(data) == {r \in rows : r.url = data.url}

\* C23: when two runs process records with the same URL at the same time, one
\* row is committed for the URL; the other record is dropped, either at the URL
\* check or by the unique constraint at INSERT (the only other way to be
\* dropped is a committed row with the same content_hash); no run is aborted:
\* a run that has returned has an outcome for each of its records and counts
\* the ones it committed as new.
C23_OneRowPerUrl ==
    /\ \A r1 \in rows, r2 \in rows : r1.url = r2.url => r1 = r2
    /\ \A f \in Finished :
          /\ f.outcome \in {"new", "duplicate", "skipped"} =>
                Cardinality(RowsOf(f.data)) = 1
          /\ f.outcome = "error" =>
                \E r \in rows :
                    \/ r.url = f.data.url
                    \/ r.content_hash = ContentHash(Truncate(f.data.title),
                                                    f.data.content)
    /\ workers # NoWorkers =>
          \A w \in Workers :
              workers[w].pc = "done" =>
                  /\ Len(workers[w].outs) = Len(workers[w].data)
                  /\ workers[w].count =
                        Cardinality({k \in 1..Len(workers[w].outs) :
                                        workers[w].outs[k] = "new"})

\* both runs have returned; the same record was committed as new by one and
\* refused at INSERT in the other, which went on to its next record
C23_Witness ==
    /\ workers # NoWorkers
    /\ \A w \in Workers : workers[w].pc = "done"
    /\ \E f \in Finished, g \in Finished :
          /\ f.by # g.by
          /\ f.data = g.data
          /\ f.outcome = "new"
          /\ g.outcome = "error"
          /\ Cardinality(RowsOf(f.data)) = 1
    /\ \E w \in Workers : Len(workers[w].outs) = 2 /\ workers[w].outs[1] = "error"

\* the text of a row as the index holds it
RowText(r) == SearchableText(r.title, r.content)

\* C24: with two runs in parallel, each record in a transaction of its own, no
\* two committed records whose similarity reaches the threshold are both
\* non-duplicates (as after any sequential order of the transactions).
C24_ParallelRunsDeduplicate ==
    \A r1 \in rows, r2 \in rows :
        (r1.id # r2.id /\ ~ r1.is_duplicate /\ ~ r2.is_duplicate) =>
            Score(RowText(r1), RowText(r2)) < Threshold

\* cleanup_old_articles has returned
Cleaned == pc = "done" /\ ret.op = "cleanup_old_articles" /\ ret.raised = "no"

\* row r of table is older than the cutoff, or is the duplicate of a row that
\* is, or of a duplicate of one, and so on for at most n references
RECURSIVE LeadsToAged(_, _, _, _)
LeadsToAged(table, r, cutoff, n) ==
    \/ r.scraped_date < cutoff
    \/ /\ n > 0
       /\ \E o \in table : o.id = r.duplicate_of /\ LeadsToAged(table, o, cutoff, n - 1)

Live(idx, table) == {d \in idx : RowExists(table, d.id)}

\* the outcome of the record the run is at, had the index held no orphans
WithoutOrphans ==
    {ProcessRecord(rows, nextId, Live(index, rows), run.data[run.i], now, ranking, {}) :
        ranking \in Rankings(Hits(Live(index, rows), TextOf(run.data[run.i])),
                             TextOf(run.data[run.i]), SearchLimit)}

\* C26: the outcome of a record and the original it is marked a duplicate of
\* are those it would have with the orphaned vectors absent from the index.
C26_OrphansChangeNothing ==
    [][RecordStep =>
          \E q \in WithoutOrphans :
              /\ last'.outcome = q.outcome
              /\ last'.original = q.original]_vars

\* the ids of the points in the index
Indexed == {d.id : d \in index}

\* the ids of the rows that are not marked as duplicates
Originals == {r.id : r \in {x \in rows : ~ x.is_duplicate}}

\* C27: with every service healthy and no run or cleanup interrupted, whenever
\* no cleanup is under way the ids in the index are the ids of the
\* non-duplicate rows.
C27_IndexIsTheOriginals == pc # "cleanup" => Indexed = Originals

\* a cleanup has removed a vector and deleted its row, and the store still
\* holds an indexed original and a duplicate
C27_Witness ==
    /\ Cleaned
    /\ ret.info.removed # {}
    /\ ret.info.removed \cap Ids(rows) = {}
    /\ Indexed # {}
    /\ \E r \in rows : r.is_duplicate

\* C28: with healthy services and runs one after another, of any two rows whose
\* similarity reaches the threshold at least one is marked as a duplicate.
C28_OriginalsAreDissimilar ==
    \A r1 \in rows, r2 \in rows :
        (r1 # r2 /\ Score(RowText(r1), RowText(r2)) >= Threshold) =>
            (r1.is_duplicate \/ r2.is_duplicate)

\* the store holds an original and a record, similar to it, that a later run
\* marked as its duplicate
C28_Witness ==
    /\ pc = "done"
    /\ ret.op = "scrape_single_source"
    /\ \E r1 \in rows, r2 \in rows :
          /\ ~ r1.is_duplicate
          /\ r2.is_duplicate
          /\ r2.duplicate_of = r1.id
          /\ r2.scraped_date > r1.scraped_date
          /\ Score(RowText(r1), RowText(r2)) >= Threshold

\* register_scraper has just stored a class under a name
JustRegistered == pc = "done" /\ ret.op = "register_scraper" /\ ret.raised = "no"

\* C29: once register_scraper(name, cls) has returned, create_scraper(name)
\* gives an instance of cls, whether auto-discovery has run or is still to run
\* inside that create_scraper.
C29_RegisteredClassIsCreated ==
    JustRegistered =>
        \A order \in ListDir :
            create_scraper(discover_scrapers(scrapers, discovered, order), ret.name)
                = [raised |-> "no", cls |-> ret.results[1]]

\* the item requests sent in the time_window that ends with request j
SentInWindow(j) ==
    {i \in 1..Len(hn.sent) :
        /\ hn.sent[j].t - limiter.time_window < hn.sent[i].t
        /\ hn.sent[i].t <= hn.sent[j].t}

\* C30: every item request HackerNewsScraper.scrape sends was admitted by the
\* limiter, and no time_window holds more than max_requests item requests.
C30_ItemRequestsAreAdmitted ==
    \A j \in 1..Len(hn.sent) :
        /\ hn.sent[j].admitted
        /\ Cardinality(SentInWindow(j)) <= limiter.max_requests

====
